---- MODULE Spec2Model ----
(***************************************************************************)
(* Model of the Obsidian note service: the related-notes scan              *)
(* (searchRelatedNotes) and the note handlers that call it.                *)
(*                                                                         *)
(* A JavaScript string is modelled as a sequence of one-character strings, *)
(* so that endsWith, replace, includes and toLowerCase are computed on     *)
(* characters as the runtime computes them.                                *)
(***************************************************************************)
EXTENDS Integers, Sequences, FiniteSets, TLC

VARIABLES
    vault,          \* the vault directory: its entries in listing order
    listable,       \* whether fs.readdir(VAULT_PATH) succeeds
    pc,             \* position of the running call
    handler,        \* which entry point is running
    content,        \* searchRelatedNotes: parameter content
    excludeTitle,   \* searchRelatedNotes: parameter excludeTitle
    files,          \* searchRelatedNotes: the listing readdir returned
    idx,            \* searchRelatedNotes: position of the for-of loop in files
    relatedNotes,   \* searchRelatedNotes: the accumulated titles
    reads,          \* positions of files on which fs.readFile was called
    outcome,        \* how searchRelatedNotes ended
    title,          \* handler: title of the note
    noteBody,       \* handler: the content to put in the note
    tags,           \* handler: tags of the note
    fileName,       \* handler: base name of the file the handler writes
    writes,         \* the fs.writeFile calls of the running handler
    calls,          \* number of handler invocations so far
    inv,            \* concurrent invocations of searchRelatedNotes, by caller
    frames,         \* the local variables of those invocations, by scope
    date,           \* the current day
    proposal,       \* the form the last review handler returned
    confirmed,      \* whether a confirm tool has been invoked
    written         \* names of the files the handlers wrote with fs.writeFile

vars == << vault, listable, pc, handler, content, excludeTitle, files, idx,
           relatedNotes, reads, outcome, title, noteBody, tags, fileName,
           writes, calls, inv, frames, date, proposal, confirmed, written >>

searchVars == << content, excludeTitle, files, idx, relatedNotes, reads, outcome >>
handlerVars == << title, noteBody, tags, fileName, writes, calls >>
concVars == << inv, frames >>
reviewVars == << date, proposal, confirmed, written >>

-----------------------------------------------------------------------------
(* Bounds *)

MaxFiles == 3       \* entries of an initial vault
MaxCalls == 2       \* handler invocations in one behaviour
NumProcs == 2       \* concurrent invocations of searchRelatedNotes
MaxDays == 2        \* days a behaviour spans

-----------------------------------------------------------------------------
(* Strings *)

MD == << ".", "m", "d" >>

UpperLetters == << "A","B","C","D","E","F","G","H","I","J","K","L","M",
                   "N","O","P","Q","R","S","T","U","V","W","X","Y","Z" >>
LowerLetters == << "a","b","c","d","e","f","g","h","i","j","k","l","m",
                   "n","o","p","q","r","s","t","u","v","w","x","y","z" >>

lowerChar(c) ==
    IF \E k \in 1..26 : UpperLetters[k] = c
    THEN LowerLetters[CHOOSE k \in 1..26 : UpperLetters[k] = c]
    ELSE c

toLowerCase(s) == [k \in 1..Len(s) |-> lowerChar(s[k])]

\* String.prototype.indexOf: first position of pat in s, 0 when absent
indexOf(s, pat) ==
    LET hits == { k \in 1..(Len(s) - Len(pat) + 1) :
                    SubSeq(s, k, k + Len(pat) - 1) = pat }
    IN IF hits = {} THEN 0 ELSE CHOOSE k \in hits : \A j \in hits : k <= j

includes(s, pat) == indexOf(s, pat) # 0

endsWith(s, suffix) ==
    /\ Len(s) >= Len(suffix)
    /\ SubSeq(s, Len(s) - Len(suffix) + 1, Len(s)) = suffix

\* String.prototype.replace with a string pattern: the first occurrence only
replace(s, pat, rep) ==
    LET k == indexOf(s, pat)
    IN IF k = 0 THEN s
       ELSE SubSeq(s, 1, k - 1) \o rep \o SubSeq(s, k + Len(pat), Len(s))

isSpace(c) == c \in { " ", "\t", "\n" }

\* title.replace(/\s+/g, '-'): every run of whitespace becomes one '-'
RECURSIVE replaceWhitespace(_)
replaceWhitespace(s) ==
    IF s = << >> THEN << >>
    ELSE IF isSpace(Head(s))
         THEN IF Len(s) > 1 /\ isSpace(s[2])
              THEN replaceWhitespace(Tail(s))
              ELSE << "-" >> \o replaceWhitespace(Tail(s))
         ELSE << Head(s) >> \o replaceWhitespace(Tail(s))

\* Array.prototype.join
RECURSIVE join(_, _)
join(xs, sep) ==
    IF xs = << >> THEN << >>
    ELSE IF Len(xs) = 1 THEN xs[1]
    ELSE xs[1] \o sep \o join(Tail(xs), sep)

-----------------------------------------------------------------------------
(* The file system *)

names(v) == [k \in 1..Len(v) |-> v[k].name]

hasFile(v, name) == \E k \in 1..Len(v) : v[k].name = name

entry(v, name) == v[CHOOSE k \in 1..Len(v) : v[k].name = name]

\* a readdir whose failure is swallowed into an empty listing
readdirSwallowed(v, ok) == [ok |-> TRUE, files |-> IF ok THEN names(v) ELSE << >>]

\* fs.readdir(VAULT_PATH)
readdir(v, ok) == [ok |-> ok, files |-> IF ok THEN names(v) ELSE << >>]

\* a readFile whose failure is swallowed into empty content
readFileSkipping(v, file) ==
    IF hasFile(v, file) /\ entry(v, file).readable
    THEN [ok |-> TRUE, data |-> entry(v, file).content]
    ELSE [ok |-> TRUE, data |-> << >>]

\* fs.readFile(path.join(VAULT_PATH, file), 'utf8')
readFile(v, file) ==
    IF hasFile(v, file) /\ entry(v, file).readable
    THEN [ok |-> TRUE, data |-> entry(v, file).content]
    ELSE [ok |-> FALSE, data |-> << >>]

-----------------------------------------------------------------------------
(* searchRelatedNotes *)

isCandidate(file, exclude) == endsWith(file, MD) /\ file # exclude \o MD

\* a containment test that compares the texts as they are
isRelevantCaseSensitive(fileContent, c) == includes(fileContent, c)

isRelevant(fileContent, c) == includes(toLowerCase(fileContent), toLowerCase(c))

noteTitle(file) == replace(file, MD, << >>)

\* a loop without the break
capNeverReached(notes) == FALSE

\* a break that comes one title late
capReachedLate(notes) == Len(notes) > 2

capReached(notes) == Len(notes) >= 2


\* the whole scan as a function of the listing: [ok, notes]; ok is FALSE when
\* a readFile of the scan throws
RECURSIVE scanFrom(_, _, _, _, _, _)
scanFrom(v, fs, k, notes, c, exclude) ==
    IF k > Len(fs) THEN [ok |-> TRUE, notes |-> notes]
    ELSE IF isCandidate(fs[k], exclude)
         THEN LET rf == readFile(v, fs[k])
                  next == IF isRelevant(rf.data, c)
                          THEN Append(notes, noteTitle(fs[k]))
                          ELSE notes
              IN IF ~rf.ok THEN [ok |-> FALSE, notes |-> notes]
                 ELSE IF capReached(next) THEN [ok |-> TRUE, notes |-> next]
                 ELSE scanFrom(v, fs, k + 1, next, c, exclude)
         ELSE scanFrom(v, fs, k + 1, notes, c, exclude)

searchRelatedNotes(v, ok, c, exclude) ==
    LET dir == readdir(v, ok)
    IN IF ~dir.ok THEN [ok |-> FALSE, notes |-> << >>]
       ELSE scanFrom(v, dir.files, 1, << >>, c, exclude)

-----------------------------------------------------------------------------
(* Inputs *)

Str_a == << "a" >>
Str_c == << "c" >>
Str_a_b == << "a", " ", "b" >>
Str_ab_md == << "a", "b", ".", "m", "d" >>
Str_hi == << "h", "i" >>
Str_HI == << "H", "I" >>
Str_xHi == << "x", "H", "i" >>
Str_y == << "y" >>
Str_t == << "t" >>

File_a == << "a", ".", "m", "d" >>
File_b == << "b", ".", "m", "d" >>
File_d == << "d", ".", "m", "d" >>
File_a_mdb == << "a", ".", "m", "d", "b", ".", "m", "d" >>
File_n_txt == << "n", ".", "t", "x", "t" >>

FileNames == { File_a, File_b, File_a_mdb, File_n_txt }
FileContents == { Str_xHi, Str_y }
SearchContents == { Str_hi, Str_HI, Str_y }
ExcludeTitles == { Str_a, Str_ab_md, Str_c }

NoteTitles == { Str_a, Str_a_b }
NoteBodies == { Str_hi }
TagLists == { << >>, << Str_t >> }
DailyNotes == { File_d }
ServiceNames == { File_b, File_d }

Entries(ns, readables) ==
    [name : ns, content : FileContents, readable : readables]

distinctNames(v) ==
    \A j, k \in 1..Len(v) : j # k => v[j].name # v[k].name

\* every directory of at most n entries named from ns
Vaults(ns, readables, n) ==
    UNION { { v \in [1..k -> Entries(ns, readables)] : distinctNames(v) } : k \in 0..n }

-----------------------------------------------------------------------------
(* Steps of searchRelatedNotes *)

startSearch(c, exclude) ==
    /\ content' = c
    /\ excludeTitle' = exclude
    /\ files' = << >>
    /\ idx' = 0
    /\ relatedNotes' = << >>
    /\ reads' = {}
    /\ outcome' = "none"
    /\ pc' = "readdir"

\* a direct invocation of searchRelatedNotes(content, excludeTitle)
CallSearch ==
    /\ pc \in { "idle", "done" }
    /\ \E c \in SearchContents, e \in ExcludeTitles : startSearch(c, e)
    /\ handler' = "search"
    /\ UNCHANGED << vault, listable, handlerVars >>
    /\ UNCHANGED << concVars, reviewVars >>

\* const files = await fs.readdir(VAULT_PATH); const relatedNotes = [];
Readdir ==
    /\ pc = "readdir"
    /\ LET dir == readdir(vault, listable)
       IN IF dir.ok
          THEN /\ files' = dir.files
               /\ idx' = 1
               /\ pc' = "scan"
               /\ outcome' = outcome
          ELSE /\ outcome' = "readdirFailed"
               /\ pc' = "done"
               /\ UNCHANGED << files, idx >>
    /\ relatedNotes' = << >>
    /\ UNCHANGED << vault, listable, handler, content, excludeTitle, reads, handlerVars >>
    /\ UNCHANGED << concVars, reviewVars >>

\* one iteration of the for-of loop
ScanEntry ==
    /\ pc = "scan"
    /\ idx <= Len(files)
    /\ LET file == files[idx]
           rf == readFile(vault, file)
           next == IF isRelevant(rf.data, content)
                   THEN Append(relatedNotes, noteTitle(file))
                   ELSE relatedNotes
       IN IF isCandidate(file, excludeTitle)
          THEN /\ reads' = reads \cup { idx }
               /\ IF ~rf.ok
                  THEN /\ outcome' = "readFileFailed"
                       /\ pc' = "done"
                       /\ UNCHANGED << relatedNotes, idx >>
                  ELSE /\ relatedNotes' = next
                       /\ outcome' = outcome
                       /\ IF capReached(next)
                          THEN pc' = "return" /\ idx' = idx
                          ELSE pc' = "scan" /\ idx' = idx + 1
          ELSE /\ idx' = idx + 1
               /\ UNCHANGED << reads, relatedNotes, outcome, pc >>
    /\ UNCHANGED << vault, listable, handler, content, excludeTitle, files, handlerVars >>
    /\ UNCHANGED << concVars, reviewVars >>

\* return relatedNotes; the caller resumes
Return ==
    /\ \/ pc = "return"
       \/ pc = "scan" /\ idx > Len(files)
    /\ outcome' = "returned"
    /\ pc' = IF handler = "search" THEN "done" ELSE "write"
    /\ UNCHANGED << vault, listable, handler, content, excludeTitle, files, idx,
                    relatedNotes, reads, handlerVars >>
    /\ UNCHANGED << concVars, reviewVars >>

-----------------------------------------------------------------------------
(* The handlers *)

RelatedHeader ==
    << "R","e","l","a","t","e","d"," ","N","o","t","e","s",":","\n" >>
TagsHeader == << "\n","T","a","g","s",":"," " >>

linkOf(note) == << "[", "[" >> \o note \o << "]", "]" >>

RECURSIVE linkLines(_)
linkLines(notes) ==
    IF notes = << >> THEN << >>
    ELSE << "-", " " >> \o linkOf(Head(notes)) \o << "\n" >> \o linkLines(Tail(notes))

\* the fileContent the add-note handler builds
addNoteFileContent(t, notes, body, tgs) ==
    << "#", " " >> \o t \o << "\n", "\n" >>
    \o (IF Len(notes) > 0 THEN RelatedHeader \o linkLines(notes) \o << "\n" >> ELSE << >>)
    \o body \o << "\n" >>
    \o (IF Len(tgs) > 0 THEN TagsHeader \o join(tgs, << ",", " " >>) ELSE << >>)

\* the text update-today-note writes to today's note
updateTodayFileContent(notes, updatedDailyNote) == updatedDailyNote

\* fs.writeFile: overwrite in place, or a new entry at position pos
writeFile(v, name, data, pos) ==
    IF hasFile(v, name)
    THEN [k \in 1..Len(v) |-> IF v[k].name = name
                              THEN [v[k] EXCEPT !.content = data]
                              ELSE v[k]]
    ELSE SubSeq(v, 1, pos - 1)
         \o << [name |-> name, content |-> data, readable |-> TRUE] >>
         \o SubSeq(v, pos, Len(v))

\* add-note: up to the call of searchRelatedNotes(content, title)
AddNote ==
    /\ pc \in { "idle", "done" }
    /\ calls < MaxCalls
    /\ \E t \in NoteTitles, c \in NoteBodies, tg \in TagLists :
        /\ title' = t
        /\ noteBody' = c
        /\ tags' = tg
        /\ fileName' = replaceWhitespace(t) \o MD
        /\ startSearch(c, t)
    /\ handler' = "add"
    /\ writes' = << >>
    /\ calls' = calls + 1
    /\ UNCHANGED << vault, listable >>
    /\ UNCHANGED << concVars, reviewVars >>

\* add-note: from the return of searchRelatedNotes to fs.writeFile
AddNoteWrite ==
    /\ pc = "write"
    /\ handler = "add"
    /\ LET fileContent == addNoteFileContent(title, relatedNotes, noteBody, tags)
       IN /\ \E pos \in 1..(Len(vault) + 1) :
                vault' = writeFile(vault, fileName, fileContent, pos)
          /\ writes' = Append(writes, [name |-> fileName, content |-> fileContent])
    /\ pc' = "done"
    /\ UNCHANGED << listable, handler, searchVars, title, noteBody, tags, fileName, calls >>
    /\ UNCHANGED << concVars, reviewVars >>

\* update-today-note: up to the call of searchRelatedNotes(updatedDailyNote, title)
UpdateTodayNote ==
    /\ pc \in { "idle", "done" }
    /\ calls < MaxCalls
    /\ \E today \in DailyNotes, created \in BOOLEAN, updatedDailyNote \in SearchContents :
        \E pos \in 1..(Len(vault) + 1) :
          LET v1 == IF ~hasFile(vault, today) /\ created
                    THEN writeFile(vault, today, << >>, pos)
                    ELSE vault
              t == replace(today, MD, << >>)
          IN /\ vault' = v1
             /\ title' = t
             /\ fileName' = today
             /\ tags' = << >>
             /\ IF hasFile(v1, today) /\ readFile(v1, today).ok
                THEN /\ noteBody' = updatedDailyNote
                     /\ startSearch(updatedDailyNote, t)
                ELSE /\ noteBody' = << >>
                     /\ pc' = "done"
                     /\ outcome' = "none"
                     /\ content' = << >>
                     /\ excludeTitle' = t
                     /\ files' = << >>
                     /\ idx' = 0
                     /\ relatedNotes' = << >>
                     /\ reads' = {}
    /\ handler' = "update"
    /\ writes' = << >>
    /\ calls' = calls + 1
    /\ UNCHANGED listable
    /\ UNCHANGED << concVars, reviewVars >>

\* update-today-note: from the return of searchRelatedNotes to fs.writeFile
UpdateTodayNoteWrite ==
    /\ pc = "write"
    /\ handler = "update"
    /\ LET fileContent == updateTodayFileContent(relatedNotes, noteBody)
       IN /\ vault' = writeFile(vault, fileName, fileContent, 1)
          /\ writes' = Append(writes, [name |-> fileName, content |-> fileContent])
    /\ pc' = "done"
    /\ UNCHANGED << listable, handler, searchVars, title, noteBody, tags, fileName, calls >>
    /\ UNCHANGED << concVars, reviewVars >>

-----------------------------------------------------------------------------
(* Concurrent invocations of searchRelatedNotes *)

Procs == 1..NumProcs

idleInvocation ==
    [pc |-> "idle", content |-> << >>, excludeTitle |-> << >>,
     outcome |-> "none", result |-> << >>]

emptyFrame == [files |-> << >>, idx |-> 1, relatedNotes |-> << >>]

noProposal == [tool |-> "none", fileName |-> << >>, content |-> << >>]

ConcNames == { File_a, File_b, File_a_mdb }
ConcContents == { Str_hi, Str_y }
ConcExcludes == { Str_a, Str_c }

\* one scope for all invocations, as module-level variables would give
sharedScope(p) == 1

\* files, relatedNotes and the loop position are declared in the function
\* body: every invocation has its own
scope(p) == p

\* caller p invokes searchRelatedNotes(content, excludeTitle)
Invoke(p) ==
    /\ inv[p].pc \in { "idle", "done" }
    /\ \E c \in ConcContents, e \in ConcExcludes :
        inv' = [inv EXCEPT ![p] = [pc |-> "readdir", content |-> c, excludeTitle |-> e,
                                   outcome |-> "none", result |-> << >>]]
    /\ UNCHANGED << vault, listable, pc, handler, searchVars, handlerVars, frames, reviewVars >>

\* const files = await fs.readdir(VAULT_PATH); const relatedNotes = [];
InvokedReaddir(p) ==
    /\ inv[p].pc = "readdir"
    /\ LET dir == readdir(vault, listable)
       IN IF dir.ok
          THEN /\ frames' = [frames EXCEPT ![scope(p)] =
                                [files |-> dir.files, idx |-> 1, relatedNotes |-> << >>]]
               /\ inv' = [inv EXCEPT ![p].pc = "scan"]
          ELSE /\ inv' = [inv EXCEPT ![p].pc = "done", ![p].outcome = "readdirFailed"]
               /\ UNCHANGED frames
    /\ UNCHANGED << vault, listable, pc, handler, searchVars, handlerVars, reviewVars >>

\* one iteration of the for-of loop of caller p's invocation
InvokedScanEntry(p) ==
    /\ inv[p].pc = "scan"
    /\ frames[scope(p)].idx <= Len(frames[scope(p)].files)
    /\ LET f == frames[scope(p)]
           file == f.files[f.idx]
           rf == readFile(vault, file)
           next == IF isRelevant(rf.data, inv[p].content)
                   THEN Append(f.relatedNotes, noteTitle(file))
                   ELSE f.relatedNotes
       IN IF isCandidate(file, inv[p].excludeTitle)
          THEN IF ~rf.ok
               THEN /\ inv' = [inv EXCEPT ![p].pc = "done", ![p].outcome = "readFileFailed"]
                    /\ frames' = [frames EXCEPT ![scope(p)] = emptyFrame]
               ELSE IF capReached(next)
                    THEN /\ frames' = [frames EXCEPT ![scope(p)].relatedNotes = next]
                         /\ inv' = [inv EXCEPT ![p].pc = "return"]
                    ELSE /\ frames' = [frames EXCEPT ![scope(p)].relatedNotes = next,
                                                     ![scope(p)].idx = f.idx + 1]
                         /\ UNCHANGED inv
          ELSE /\ frames' = [frames EXCEPT ![scope(p)].idx = f.idx + 1]
               /\ UNCHANGED inv
    /\ UNCHANGED << vault, listable, pc, handler, searchVars, handlerVars, reviewVars >>

\* return relatedNotes to caller p; the invocation's locals are gone
InvokedReturn(p) ==
    /\ \/ inv[p].pc = "return"
       \/ inv[p].pc = "scan" /\ frames[scope(p)].idx > Len(frames[scope(p)].files)
    /\ inv' = [inv EXCEPT ![p].pc = "done", ![p].outcome = "returned",
                          ![p].result = frames[scope(p)].relatedNotes]
    /\ frames' = [frames EXCEPT ![scope(p)] = emptyFrame]
    /\ UNCHANGED << vault, listable, pc, handler, searchVars, handlerVars, reviewVars >>

-----------------------------------------------------------------------------
(* The review-and-confirm service *)

Digits == << "1", "2", "3", "4", "5", "6", "7", "8", "9" >>

\* the path of the daily note of day d, as a base name in the vault
getTodayNoteFilePath(d) == << "d", Digits[d] >> \o MD

ReviewNames == { File_b, getTodayNoteFilePath(1) }

\* the fileContent the add-note handler of the review service builds
reviewNoteFileContent(notes, body) ==
    (IF Len(notes) > 0 THEN RelatedHeader \o linkLines(notes) \o << "\n" >> ELSE << >>)
    \o body \o << "\n" >>

\* the file confirm-update-today-note writes, given its fileName parameter
\* and the current day
confirmUpdateTarget(name, d) == getTodayNoteFilePath(d)

searchIdle ==
    /\ pc' = "done"
    /\ outcome' = "none"
    /\ content' = << >>
    /\ excludeTitle' = << >>
    /\ files' = << >>
    /\ idx' = 0
    /\ relatedNotes' = << >>
    /\ reads' = {}

\* the day ends
DayChanges ==
    /\ date < MaxDays
    /\ date' = date + 1
    /\ UNCHANGED << vault, listable, pc, handler, searchVars, handlerVars, concVars,
                    proposal, confirmed, written >>

\* add-note: up to the call of searchRelatedNotes(content, title)
ReviewAddNote ==
    /\ pc \in { "idle", "done" }
    /\ calls < MaxCalls
    /\ \E t \in NoteTitles, c \in NoteBodies :
        /\ title' = t
        /\ noteBody' = c
        /\ fileName' = t \o MD
        /\ startSearch(c, t)
    /\ tags' = << >>
    /\ handler' = "reviewAdd"
    /\ writes' = << >>
    /\ calls' = calls + 1
    /\ UNCHANGED << vault, listable, concVars, reviewVars >>

\* add-note: from the return of searchRelatedNotes to the response with the
\* review form
ReviewAddNoteRespond ==
    /\ pc = "write"
    /\ handler = "reviewAdd"
    /\ LET fileContent == reviewNoteFileContent(relatedNotes, noteBody)
       IN /\ \E pos \in 1..(Len(vault) + 1) :
                vault' = writeFile(vault, fileName, fileContent, pos)
          /\ writes' = Append(writes, [name |-> fileName, content |-> fileContent])
          /\ proposal' = [tool |-> "confirm-add-note", fileName |-> fileName,
                          content |-> fileContent]
    /\ written' = written \cup { fileName }
    /\ pc' = "done"
    /\ UNCHANGED << listable, handler, searchVars, title, noteBody, tags, fileName, calls,
                    concVars, date, confirmed >>

\* confirm-add-note, submitted from the review form
ConfirmAddNote ==
    /\ pc \in { "idle", "done" }
    /\ calls < MaxCalls
    /\ proposal.tool = "confirm-add-note"
    /\ \E editedContent \in { proposal.content, Str_y } :
        /\ \E pos \in 1..(Len(vault) + 1) :
              vault' = writeFile(vault, proposal.fileName, editedContent, pos)
        /\ writes' = << [name |-> proposal.fileName, content |-> editedContent] >>
        /\ noteBody' = editedContent
    /\ written' = written \cup { proposal.fileName }
    /\ fileName' = proposal.fileName
    /\ title' = replace(proposal.fileName, MD, << >>)
    /\ tags' = << >>
    /\ handler' = "confirmAdd"
    /\ confirmed' = TRUE
    /\ calls' = calls + 1
    /\ searchIdle
    /\ UNCHANGED << listable, concVars, date, proposal >>

\* update-today-note: up to the call of searchRelatedNotes(updatedDailyNote, title)
ReviewUpdateTodayNote ==
    /\ pc \in { "idle", "done" }
    /\ calls < MaxCalls
    /\ \E created \in BOOLEAN, updatedDailyNote \in SearchContents :
        \E pos \in 1..(Len(vault) + 1) :
          LET today == getTodayNoteFilePath(date)
              v1 == IF ~hasFile(vault, today) /\ created
                    THEN writeFile(vault, today, << >>, pos)
                    ELSE vault
              t == replace(today, MD, << >>)
          IN /\ vault' = v1
             /\ title' = t
             /\ fileName' = today
             /\ IF hasFile(v1, today) /\ readFile(v1, today).ok
                THEN /\ noteBody' = updatedDailyNote
                     /\ startSearch(updatedDailyNote, t)
                ELSE /\ noteBody' = << >>
                     /\ searchIdle
    /\ tags' = << >>
    /\ handler' = "reviewUpdate"
    /\ writes' = << >>
    /\ calls' = calls + 1
    /\ UNCHANGED << listable, concVars, reviewVars >>

\* update-today-note: from the return of searchRelatedNotes to the response
\* with the review form
ReviewUpdateTodayNoteRespond ==
    /\ pc = "write"
    /\ handler = "reviewUpdate"
    /\ proposal' = [tool |-> "confirm-update-today-note", fileName |-> fileName,
                    content |-> noteBody]
    /\ pc' = "done"
    /\ UNCHANGED << vault, listable, handler, searchVars, handlerVars, concVars,
                    date, confirmed, written >>

\* confirm-update-today-note, submitted from the review form
ConfirmUpdateTodayNote ==
    /\ pc \in { "idle", "done" }
    /\ calls < MaxCalls
    /\ proposal.tool = "confirm-update-today-note"
    /\ LET filePath == confirmUpdateTarget(proposal.fileName, date)
       IN /\ \E editedContent \in { proposal.content, Str_y } :
              /\ \E pos \in 1..(Len(vault) + 1) :
                    vault' = writeFile(vault, filePath, editedContent, pos)
              /\ writes' = << [name |-> filePath, content |-> editedContent] >>
              /\ noteBody' = editedContent
          /\ written' = written \cup { filePath }
    /\ fileName' = proposal.fileName
    /\ title' = replace(proposal.fileName, MD, << >>)
    /\ tags' = << >>
    /\ handler' = "confirmUpdate"
    /\ confirmed' = TRUE
    /\ calls' = calls + 1
    /\ searchIdle
    /\ UNCHANGED << listable, concVars, date, proposal >>

-----------------------------------------------------------------------------
(* Specifications *)

InitCall ==
    /\ pc = "idle"
    /\ handler = "none"
    /\ content = << >>
    /\ excludeTitle = << >>
    /\ files = << >>
    /\ idx = 0
    /\ relatedNotes = << >>
    /\ reads = {}
    /\ outcome = "none"
    /\ title = << >>
    /\ noteBody = << >>
    /\ tags = << >>
    /\ fileName = << >>
    /\ writes = << >>
    /\ calls = 0
    /\ inv = [p \in Procs |-> idleInvocation]
    /\ frames = [p \in Procs |-> emptyFrame]
    /\ date = 1
    /\ proposal = noProposal
    /\ confirmed = FALSE
    /\ written = {}

\* searchRelatedNotes called directly, over every vault of the bounds
InitSearch ==
    /\ vault \in Vaults(FileNames, BOOLEAN, MaxFiles)
    /\ listable \in BOOLEAN
    /\ InitCall

NextSearch ==
    \/ CallSearch
    \/ Readdir
    \/ ScanEntry
    \/ Return

SpecSearch == InitSearch /\ [][NextSearch]_vars

\* the service of src/index.ts: add-note and update-today-note
Init ==
    /\ vault \in Vaults(ServiceNames, { TRUE }, 2)
    /\ listable \in BOOLEAN
    /\ InitCall

Next ==
    \/ AddNote
    \/ UpdateTodayNote
    \/ Readdir
    \/ ScanEntry
    \/ Return
    \/ AddNoteWrite
    \/ UpdateTodayNoteWrite

Spec == Init /\ [][Next]_vars

\* several callers in searchRelatedNotes at once, suspended at each await
InitConcurrent ==
    /\ vault \in Vaults(ConcNames, BOOLEAN, 2)
    /\ listable \in BOOLEAN
    /\ InitCall

NextConcurrent ==
    \/ \E p \in Procs : Invoke(p)
    \/ \E p \in Procs : InvokedReaddir(p)
    \/ \E p \in Procs : InvokedScanEntry(p)
    \/ \E p \in Procs : InvokedReturn(p)

SpecConcurrent == InitConcurrent /\ [][NextConcurrent]_vars

\* the review-and-confirm service: proposals, confirmations and the calendar
InitReview ==
    /\ vault \in Vaults(ReviewNames, { TRUE }, 2)
    /\ listable \in BOOLEAN
    /\ InitCall

NextReview ==
    \/ ReviewAddNote
    \/ ReviewAddNoteRespond
    \/ ConfirmAddNote
    \/ ReviewUpdateTodayNote
    \/ ReviewUpdateTodayNoteRespond
    \/ ConfirmUpdateTodayNote
    \/ Readdir
    \/ ScanEntry
    \/ Return
    \/ DayChanges

SpecReview == InitReview /\ [][NextReview]_vars

-----------------------------------------------------------------------------
(* The scan as the specification describes it, on the listing in files *)

Min(a, b) == IF a <= b THEN a ELSE b

\* the j-th smallest member of a set of positions
nth(S, j) == CHOOSE k \in S : Cardinality({ i \in S : i < k }) = j - 1

\* the title of a note file: its name without the trailing extension
stripExtension(file) == SubSeq(file, 1, Len(file) - Len(MD))

fileAt(k) == entry(vault, files[k])

\* the '.md' entries other than excludeTitle's file
Candidates ==
    { k \in 1..Len(files) :
        /\ Len(files[k]) >= 3
        /\ SubSeq(files[k], Len(files[k]) - 2, Len(files[k])) = << ".", "m", "d" >>
        /\ files[k] # excludeTitle \o << ".", "m", "d" >> }

Unreadable == { k \in Candidates : ~fileAt(k).readable }

containsLowercased(hay, needle) ==
    LET h == toLowerCase(hay)
        n == toLowerCase(needle)
    IN \E k \in 0..(Len(h) - Len(n)) : \A j \in 1..Len(n) : h[k + j] = n[j]

\* the readable candidates whose content contains the searched content
Matching ==
    { k \in Candidates :
        fileAt(k).readable /\ containsLowercased(fileAt(k).content, content) }

matchesBefore(k) == Cardinality({ j \in Matching : j < k })

\* a candidate that cannot be read and lies before the scan's early exit
UnreadableReached == \E u \in Unreadable : matchesBefore(u) < 2

AllReadable == Unreadable = {}

-----------------------------------------------------------------------------
(* Claims *)

\* C1: the sequence searchRelatedNotes returns never contains a title equal
\* to excludeTitle, for every vault, content and excludeTitle.
C1_ExcludedTitleNeverReturned ==
    outcome = "returned" =>
        \A j \in 1..Len(relatedNotes) : relatedNotes[j] # excludeTitle

\* C2: in the add-note flow the relatedNotes returned and spliced into the
\* file never name the file that the call writes, also when the call is
\* repeated after the note's file exists.
C2_NoteNotRelatedToItself ==
    (handler = "add" /\ outcome = "returned") =>
        \A j \in 1..Len(relatedNotes) : relatedNotes[j] \o MD # fileName

\* C3: the accumulated result holds at most 2 titles at every point of the
\* scan and at return.
C3_AtMostCap == Len(relatedNotes) <= 2

\* C3 witness: the scan returned 2 titles from a vault with 3 matching notes.
C3_Witness ==
    /\ outcome = "returned"
    /\ Len(relatedNotes) = 2
    /\ Cardinality(Matching) >= 3

\* C4: on a readable vault the result is exactly the titles (file name
\* without its trailing '.md') of the first min(2, m) matching candidates
\* in listing order, m the number of matching candidates.
C4_FirstMatchesInListingOrder ==
    (outcome = "returned" /\ AllReadable) =>
        relatedNotes = [j \in 1..Min(2, Cardinality(Matching)) |->
                          stripExtension(files[nth(Matching, j)])]

\* C5: when the vault directory cannot be listed, searchRelatedNotes fails
\* with the filesystem error, returns no list, and the add-note handler
\* that called it writes no file.
C5_VaultErrorPropagates ==
    (handler = "add" /\ ~listable /\ pc # "readdir") =>
        /\ outcome = "readdirFailed"
        /\ pc = "done"
        /\ writes = << >>

\* C5 witness: an add-note call ended on the readdir failure.
C5_Witness ==
    /\ handler = "add"
    /\ ~listable
    /\ pc = "done"
    /\ outcome = "readdirFailed"

\* C6: a candidate matches exactly when its lowercased content contains the
\* lowercased searched content, so contents that differ only in letter case
\* give the same result on the same vault.
C6_CaseInsensitiveMatch ==
    /\ LET hits == { k \in reads : k \in Matching }
       IN (outcome # "readFileFailed") =>
            relatedNotes = [j \in 1..Cardinality(hits) |-> noteTitle(files[nth(hits, j)])]
    /\ outcome = "returned" =>
         \A c2 \in SearchContents :
            toLowerCase(c2) = toLowerCase(content) =>
                searchRelatedNotes(vault, listable, c2, excludeTitle)
                    = [ok |-> TRUE, notes |-> relatedNotes]

\* C6 witness: a returned match whose content contains the searched content
\* only after lowercasing both.
C6_Witness ==
    /\ outcome = "returned"
    /\ \E k \in reads :
        /\ k \in Matching
        /\ ~includes(fileAt(k).content, content)
        /\ \E j \in 1..Len(relatedNotes) : relatedNotes[j] = noteTitle(files[k])

\* C7: add-note and update-today-note both write a file whose content holds
\* a [[title]] link for every title searchRelatedNotes returned.
C7_ReturnedTitlesSpliced ==
    \A w \in 1..Len(writes) :
        \A j \in 1..Len(relatedNotes) :
            includes(writes[w].content, linkOf(relatedNotes[j]))

\* C8: every returned title is the name of a '.md' entry of the listing
\* without its trailing '.md', so title + '.md' names an entry.
C8_TitleNamesListedEntry ==
    \A j \in 1..Len(relatedNotes) :
        \E k \in 1..Len(files) :
            /\ endsWith(files[k], MD)
            /\ files[k] = relatedNotes[j] \o MD

\* C9 as stated: an unreadable candidate is skipped like a non-match and
\* the call still returns the matches found among the other candidates.
C9_ReadFailureSkipped ==
    (pc = "done" /\ listable) =>
        /\ outcome = "returned"
        /\ relatedNotes = [j \in 1..Min(2, Cardinality(Matching)) |->
                             noteTitle(files[nth(Matching, j)])]

\* C9 amended: a failure to read a candidate the scan reaches (one with
\* fewer than 2 matches before it) makes the whole call fail with that
\* error and no list is returned; otherwise the call returns.
C9_ReadFailureFailsCall ==
    (pc = "done" /\ listable) =>
        /\ UnreadableReached <=> outcome = "readFileFailed"
        /\ ~UnreadableReached <=> outcome = "returned"

\* C9 witness: a call failed on an unreadable candidate after it had found
\* a match in another candidate.
C9_Witness ==
    /\ pc = "done"
    /\ outcome = "readFileFailed"
    /\ Len(relatedNotes) = 1

\* C10: no entry after the 2nd match in listing order is read, and an
\* unreadable entry located after the 2nd match does not make the call fail.
C10_EarlyExit ==
    /\ \A k \in reads : matchesBefore(k) < 2
    /\ (pc = "done" /\ listable /\ Cardinality(Matching) >= 2
          /\ \A u \in Unreadable : u > nth(Matching, 2)) =>
            outcome = "returned" /\ Len(relatedNotes) = 2

\* C10 witness: the scan returned at its 2nd match with an unreadable
\* candidate after it in the listing.
C10_Witness ==
    /\ outcome = "returned"
    /\ Cardinality(Matching) >= 2
    /\ \E u \in Unreadable : u > nth(Matching, 2)
    /\ \A k \in reads : k <= nth(Matching, 2)


\* C11: under any interleaving of invocations over an unmodified vault each
\* invocation ends as it would when run alone on that vault, and no step of
\* an invocation changes the vault.
C11_InvocationsIndependent ==
    /\ [](\A p \in Procs :
            inv[p].pc = "done" =>
                LET alone == searchRelatedNotes(vault, listable, inv[p].content,
                                                inv[p].excludeTitle)
                IN /\ (inv[p].outcome = "returned") <=> alone.ok
                   /\ alone.ok => inv[p].result = alone.notes)
    /\ [][vault' = vault]_vars

\* C11 witness: one invocation returned a match while another, searching
\* for something else, is suspended in the middle of its scan.
C11_Witness ==
    \E p, q \in Procs :
        /\ p # q
        /\ inv[p].pc = "done"
        /\ inv[p].outcome = "returned"
        /\ Len(inv[p].result) >= 1
        /\ inv[q].pc = "scan"
        /\ frames[scope(q)].idx = 2
        /\ inv[q].content # inv[p].content


\* C12: in the review-and-confirm service, as long as no confirm tool has
\* been invoked, add-note and update-today-note have written no note file.
C12_NoWriteBeforeConfirm == ~confirmed => written = {}

\* C13: confirm-update-today-note writes the note file whose base name is
\* the fileName that update-today-note passed on, and no other file, also
\* when the date changed in between.
C13_ConfirmWritesProposedFile ==
    (handler = "confirmUpdate" /\ pc = "done") =>
        /\ Len(writes) = 1
        /\ \A w \in 1..Len(writes) : writes[w].name = fileName

====
